---- MODULE Spec2Model ----
(***************************************************************************)
(* Model of couchapp/vendor.py: the Vendor object (handler registry,       *)
(* fetch_vendor, install, update) acting on the vendor directory of one    *)
(* couchapp.  Every public method is one action; the call runs to          *)
(* completion (the code is single-threaded and synchronous) and the state  *)
(* keeps the arguments of the last call, the filesystem before it, the     *)
(* ordered effects it had (log) and how it ended (outcome).                *)
(*                                                                         *)
(* Strings that the code takes apart (URIs, schemes) are sequences of      *)
(* tokens, so that uri.split("://")[0] is computed, not assumed.           *)
(***************************************************************************)
EXTENDS Integers, Sequences, FiniteSets, TLC

VARIABLES vendordir, installed, source, verbose, call, pre, log, outcome,
          handlers, conf, gen

\* handlers is the module-level dict GLOBAL_VENDOR_HANDLERS as it stands now;
\* self.vendor_handlers of every Vendor is that same dict (line 50 copies
\* nothing).  conf is ui.conf["vendor_handlers"] of the Vendor in use.
\* gen holds the arguments of the last generate call that call has no field
\* for, and what the filesystem held for it.
vars == <<vendordir, installed, source, verbose, call, pre, log, outcome,
          handlers, conf, gen>>

---------------------------------------------------------------------------
(* Bounds *)

\* number of bundle names that can occur under <appdir>/vendor
MaxNames == 2

NameTable == <<"a", "b", "c", "d">>

Names == {NameTable[i] : i \in 1..MaxNames}

NoName == "-"

---------------------------------------------------------------------------
(* URIs and the handler registry *)

SEP == "://"

U_git == <<"git", SEP, "x">>
U_hg == <<"hg", SEP, "x">>
U_ftp == <<"ftp", SEP, "x">>
U_bare == <<"x">>
U_two == <<"hg", SEP, "git", SEP, "x">>
U_empty == <<>>

\* the URIs a caller passes, and the ones found in installed metadata
URIs == {U_git, U_hg, U_ftp, U_bare, U_two, U_empty}

RECURSIVE SplitFirst(_)
\* uri.split("://")[0]: the text before the first "://", the whole text
\* when there is none
SplitFirst(uri) ==
    IF uri = <<>> THEN <<>>
    ELSE IF Head(uri) = SEP THEN <<>>
    ELSE <<Head(uri)>> \o SplitFirst(Tail(uri))

\* the built-in table: handler name -> module name
GLOBAL_VENDOR_HANDLERS ==
    [h \in {"couchdb", "git", "hg"} |->
        CASE h = "couchdb" -> "couchapp.couchdbvendor"
          [] h = "git" -> "couchapp.gitvendor"
          [] h = "hg" -> "couchapp.hgvendor"]

\* the `scheme` list each handler module exports (the modules are plugins
\* outside this file; the git one is the example of load_vendors' docstring)
ModuleSchemes(mod) ==
    CASE mod = "couchapp.couchdbvendor" -> {<<"couchdb">>}
      [] mod = "couchapp.gitvendor" -> {<<"git">>, <<"git+ssh">>}
      [] mod = "couchapp.hgvendor" -> {<<"hg">>}
      [] mod = "couchapp.ftpvendor" -> {<<"ftp">>}
      [] mod = "ext.gitvendor" -> {<<"git">>}
      [] OTHER -> {}

\* load_vendors: the schemes that got a fetch command
load_vendors(vendor_handlers) ==
    UNION {ModuleSchemes(vendor_handlers[h]) : h \in DOMAIN vendor_handlers}

\* a dict with no key
EmptyDict == [h \in {} |-> ""]

\* the values ui.conf may hold under "vendor_handlers" (EmptyDict also
\* stands for a conf without the key: both leave the table as it is)
Confs ==
    {EmptyDict,
     [h \in {"ftp"} |-> "couchapp.ftpvendor"],
     [h \in {"git"} |-> "ext.gitvendor"]}

\* a fresh dict holding d1 overridden by d2
Merged(d1, d2) ==
    [h \in DOMAIN d1 \cup DOMAIN d2 |-> IF h \in DOMAIN d2 THEN d2[h] ELSE d1[h]]

\* d.update(other): d itself afterwards
DictUpdate(d, other) == Merged(d, other)

\* self.scheme of the Vendor in use: load_vendors ran in its __init__, on
\* the table as __init__ left it
scheme == load_vendors(handlers)

\* the names defined in class Vendor; self.<name> for any other name raises
\* AttributeError
VendorAttrs ==
    {"ui", "vendor_handlers", "scheme", "vendors", "__init__", "load_vendors",
     "find_handler", "installed_vendors", "fetch_vendor", "install", "update"}

\* the attributes of the ui collaborator that this file may rely on
UiAttrs == {"conf", "read_json", "write_json", "deltree", "logger", "verbose"}

---------------------------------------------------------------------------
(* The filesystem under <appdir>/vendor *)

\* metadata.json of an installed bundle: a dict with an optional fetch_uri
NoMeta == [has_fetch_uri |-> FALSE, fetch_uri |-> U_empty]

Metas ==
    {NoMeta} \cup {[has_fetch_uri |-> TRUE, fetch_uri |-> u] :
                      u \in {U_empty, U_git, U_hg}}

\* one entry of the vendor directory
Absent == [isdir |-> FALSE, hasmeta |-> FALSE, meta |-> NoMeta]

Entries ==
    {Absent, [isdir |-> TRUE, hasmeta |-> FALSE, meta |-> NoMeta]}
    \cup {[isdir |-> TRUE, hasmeta |-> TRUE, meta |-> m] : m \in Metas}

\* what the handler of a fetch would write into the staging directory: the
\* subdirectories that hold a metadata.json (bundles), whether there is
\* a subdirectory without one (junk), and whether the metadata files carry
\* a `name` key that differs from the name of their directory (named)
Sources == [bundles : SUBSET Names, junk : BOOLEAN, named : BOOLEAN]

\* the `name` key of the metadata in staged directory d, when there is one
MetaName(d) ==
    LET i == CHOOSE k \in 1..MaxNames : NameTable[k] = d
    IN  NameTable[(i % MaxNames) + 1]

\* meta.get("fetch_uri", "")
GetFetchUri(meta) == IF meta.has_fetch_uri THEN meta.fetch_uri ELSE U_empty

\* the test written as `uri is None`: the default of meta.get is "", so it
\* never fires
UriIsNone(uri) == FALSE

\* `not uri` for a string
UriUndefined(uri) == uri = U_empty

\* the listing without the os.path.isfile(metaf) test: every directory
listed_dirs(inst) == {n \in Names : inst[n].isdir}

\* installed_vendors: the names of vendordir that hold a metadata.json
installed_vendors(inst) == {n \in Names : inst[n].isdir /\ inst[n].hasmeta}

---------------------------------------------------------------------------
(* Effects and results of a call *)

Ev(ev, name, uri) == [ev |-> ev, name |-> name, uri |-> uri]

\* the running state of a call: the vendor directory, the effects so far,
\* and the exception that ended it ("None" while it runs)
St(vd, lg, exc, msg) == [vendordir |-> vd, log |-> lg, exc |-> exc, msg |-> msg]

Raise(st, exc, msg) == St(st.vendordir, st.log, exc, msg)

Emit(st, ev, name, uri) ==
    St(st.vendordir, Append(st.log, Ev(ev, name, uri)), st.exc, st.msg)

\* if not os.path.isdir(vendordir): os.makedirs(vendordir)
EnsureVendorDir(st) == St(TRUE, st.log, st.exc, st.msg)

\* getattr(obj, name): "None" when the name resolves, else the exception
GetAttr(attrs, name) == IF name \in attrs THEN "None" ELSE "AttributeError"

---------------------------------------------------------------------------
(* The methods of Vendor *)

\* find_handler(uri): the fetch command registered for the uri's scheme
find_handler(st, uri) ==
    IF SplitFirst(uri) \in scheme
    THEN st
    ELSE Raise(st, "VendorError", "unknown scheme")

\* fetch_vendor(uri).  Its first statement, line 118, calls
\* self.find_vendor(uri); the class defines find_handler and no find_vendor,
\* so the attribute lookup raises and nothing after it (_tempdir, the
\* handler, the scan of the staging directory) is executed.
fetch_vendor(st, uri) ==
    LET entered == Emit(st, "fetch_vendor", NoName, uri)
    IN  Raise(entered, GetAttr(VendorAttrs, "find_vendor"), "find_vendor")

\* install(appdir, uri, force=...).  The loop over the fetched bundles
\* (lines 150-169) runs only when fetch_vendor returns.
install(st, uri) ==
    LET made == EnsureVendorDir(st)
    IN  fetch_vendor(made, uri)

\* update(appdir, name), name given (lines 177-198)
update_name(st, inst, name) ==
    LET made == EnsureVendorDir(st)
        uri == GetFetchUri(inst[name].meta)
    IN  IF name \notin installed_vendors(inst)
        THEN Raise(made, "VendorError", "doesn't exist")
        ELSE IF UriUndefined(uri)
        THEN Raise(made, "VendorError", "fetch_uri undefined")
        ELSE fetch_vendor(made, uri)

RECURSIVE update_loop(_, _, _, _)
\* the loop of the bulk update (lines 201-232) over vendors[i..], the
\* listing of installed_vendors taken before the loop
update_loop(st, inst, vendors, updated) ==
    IF vendors = <<>> \/ st.exc # "None" THEN st
    ELSE LET vendor == Head(vendors)
             uri == GetFetchUri(inst[vendor].meta)
             next ==
                IF vendor \in updated THEN st
                ELSE IF UriUndefined(uri)
                THEN IF verbose >= 1
                     THEN Raise(st, GetAttr(UiAttrs, "logget"), "logget")
                     ELSE st
                ELSE fetch_vendor(st, uri)
         IN  update_loop(next, inst, Tail(vendors), updated)

\* update(appdir), name omitted
update_all(st, inst, order) ==
    update_loop(EnsureVendorDir(st), inst, order, {})

---------------------------------------------------------------------------
(* couchapp/generator.py: generate and generate_function *)

\* the kinds generate accepts
GenerateKinds ==
    {"view", "list", "show", "filter", "function", "vendor", "update", "spatial"}

\* the kinds a caller may pass
Kinds == GenerateKinds \cup {"attachment"}

\* a name argument that is given; NoName stands for None
GivenName == "recent"

NoTemplate == "None"

\* arguments and surroundings of a generate call: the kind, the template
\* option, whether find_template_dir finds a directory, and whether the
\* path of the view exists already
Gens ==
    [kind : Kinds, template : {NoTemplate, "tpl"}, found : BOOLEAN,
     exists : BOOLEAN]

NoGen == [kind |-> "view", template |-> NoTemplate, found |-> FALSE,
          exists |-> FALSE]

\* copy_helper(path, directory): walks the template directory and copies it
copy_helper(st, found) ==
    IF found
    THEN Emit(st, "copytree", "templates", <<>>)
    ELSE Raise(st, "AppError", "default template not found")

\* the (template, target) pairs of lines 111-128, as the targets
Functions(kind, name) ==
    CASE kind = "view" -> <<"map.js", "reduce.js">>
      [] OTHER -> <<name>>

RECURSIVE CopyAll(_, _)
\* the loop of lines 134-142: a copy2 per target, its failure only logged
CopyAll(st, targets) ==
    IF targets = <<>> THEN st
    ELSE CopyAll(Emit(st, "copy2", Head(targets), <<>>), Tail(targets))

\* generate_function(path, kind, name, template)
generate_function(st, g, name) ==
    LET entered == Emit(st, "generate_function", name, <<>>)
    IN  IF ~g.found
        THEN Raise(entered, "AppError", "templates not found")
        ELSE IF g.kind = "view" /\ g.exists
        THEN Raise(entered, "AppError", "already exists")
        ELSE IF g.kind = "vendor"
        THEN LET made == Emit(entered, "makedirs", "vendor", <<>>)
             IN  IF g.template = NoTemplate
                 THEN Raise(made, "AttributeError", "split")
                 ELSE copy_helper(made, g.found)
        ELSE CopyAll(Emit(entered, "makedirs", g.kind, <<>>),
                     Functions(g.kind, name))

\* generate without the test of the name (lines 230-232 left out)
generate_unnamed(st, g, name) ==
    IF g.kind \notin GenerateKinds
    THEN Raise(st, "AppError", "generator is unknown")
    ELSE generate_function(st, g, name)

\* generate(path, kind, name, **opts)
generate(st, g, name) ==
    IF g.kind \notin GenerateKinds
    THEN Raise(st, "AppError", "generator is unknown")
    ELSE IF name = NoName
    THEN Raise(st, "AppError", "name is missing")
    ELSE generate_function(st, g, name)

---------------------------------------------------------------------------
(* The state machine *)

Start == St(vendordir, <<>>, "None", "")

Call(op, uri, name, force, order) ==
    [op |-> op, uri |-> uri, name |-> name, force |-> force, order |-> order]

\* the orders in which os.listdir may give the installed vendors
Orders(S) ==
    {o \in UNION {[1..k -> S] : k \in {Cardinality(S)}} :
        \A i, j \in DOMAIN o : i # j => o[i] # o[j]}

\* a call that ended with st: what it leaves behind
Finish(c, st, ret) ==
    /\ call' = c
    /\ pre' = [vendordir |-> vendordir, installed |-> installed]
    /\ vendordir' = st.vendordir
    /\ log' = st.log
    /\ outcome' = [exc |-> st.exc, msg |-> st.msg,
                   ret |-> IF st.exc = "None" THEN ret ELSE "-"]
    /\ UNCHANGED <<installed, source, verbose, handlers, conf, gen>>

Init ==
    /\ vendordir \in BOOLEAN
    /\ installed \in [Names -> Entries]
    /\ ~vendordir => \A n \in Names : installed[n] = Absent
    /\ source \in Sources
    /\ verbose \in 0..1
    /\ call = Call("none", U_empty, NoName, FALSE, <<>>)
    /\ pre = [vendordir |-> vendordir, installed |-> installed]
    /\ log = <<>>
    /\ outcome = [exc |-> "None", msg |-> "", ret |-> "-"]
    /\ handlers = GLOBAL_VENDOR_HANDLERS
    /\ conf = EmptyDict
    /\ gen = NoGen

\* Vendor(ui) for a ui whose conf holds c under "vendor_handlers": line 50
\* binds vendor_handlers to the module-level dict itself, line 53 updates
\* it in place, line 56 keeps it as self.vendor_handlers
VendorInit ==
    \E c \in Confs :
        /\ handlers' = DictUpdate(handlers, c)
        /\ conf' = c
        /\ call' = Call("__init__", U_empty, NoName, FALSE, <<>>)
        /\ pre' = [vendordir |-> vendordir, installed |-> installed]
        /\ log' = <<>>
        /\ outcome' = [exc |-> "None", msg |-> "", ret |-> "-"]
        /\ UNCHANGED <<vendordir, installed, source, verbose, gen>>

FindHandler ==
    \E uri \in URIs :
        Finish(Call("find_handler", uri, NoName, FALSE, <<>>),
               find_handler(Start, uri), "fetchcmd")

FetchVendor ==
    \E uri \in URIs :
        Finish(Call("fetch_vendor", uri, NoName, FALSE, <<>>),
               fetch_vendor(Start, uri), "vendors")

Install ==
    \E uri \in URIs, force \in BOOLEAN :
        Finish(Call("install", uri, NoName, force, <<>>),
               install(Start, uri), "0")

UpdateName ==
    \E name \in Names, force \in BOOLEAN :
        Finish(Call("update", U_empty, name, force, <<>>),
               update_name(Start, installed, name), "0")

UpdateAll ==
    \E force \in BOOLEAN, order \in Orders(installed_vendors(installed)) :
        Finish(Call("update", U_empty, NoName, force, order),
               update_all(Start, installed, order), "0")

Generate ==
    \E g \in Gens, name \in {NoName, GivenName} :
        LET st == generate(Start, g, name)
        IN  /\ gen' = g
            /\ call' = Call("generate", U_empty, name, FALSE, <<>>)
            /\ pre' = [vendordir |-> vendordir, installed |-> installed]
            /\ log' = st.log
            /\ outcome' = [exc |-> st.exc, msg |-> st.msg, ret |-> "-"]
            /\ UNCHANGED <<vendordir, installed, source, verbose, handlers, conf>>

Next == FindHandler \/ FetchVendor \/ Install \/ UpdateName \/ UpdateAll

Spec == Init /\ [][Next]_vars

\* Vendor objects built one after the other in one process, each from its
\* own configuration, and asked for handlers
InitRegistry ==
    /\ Init
    /\ \A n \in Names : installed[n] = Absent
    /\ source = [bundles |-> {}, junk |-> FALSE, named |-> FALSE]

NextRegistry == VendorInit \/ FindHandler

SpecRegistry == InitRegistry /\ [][NextRegistry]_vars

\* the generator, called on an application directory
InitGenerate == InitRegistry /\ ~vendordir /\ verbose = 0

NextGenerate == Generate

SpecGenerate == InitGenerate /\ [][NextGenerate]_vars

---------------------------------------------------------------------------
(* Properties *)

\* the positions of the log that hold an effect of kind ev
Events(ev) == {i \in DOMAIN log : log[i].ev = ev}

\* the last call fetched (or was a fetch) from a uri whose scheme has a
\* handler, so that a handler stands behind the fetch
Registered(uri) ==
    SplitFirst(uri) \in {<<"couchdb">>, <<"git">>, <<"git+ssh">>, <<"hg">>}

\* the bundle names the backing source yields with a metadata file
Produced == source.bundles

\* the name under which install places the bundle staged in directory d:
\* meta.get('name', name) (line 151)
InstallName(d) == IF source.named THEN MetaName(d) ELSE d

\* the names under which an install from the source places its bundles
Placed == {InstallName(d) : d \in Produced}

WasInstalled(n) == pre.installed[n].isdir /\ pre.installed[n].hasmeta

NoRecordedUri(n) ==
    \/ ~pre.installed[n].meta.has_fetch_uri
    \/ pre.installed[n].meta.fetch_uri = <<>>

\* the last call was update(appdir) without a name
BulkUpdate == call.op = "update" /\ call.name = NoName

\* the vendors installed before the call that record a source uri
WithUri == {n \in Names : WasInstalled(n) /\ ~NoRecordedUri(n)}

\* C2: a fetch from a uri whose scheme has no registered handler fails with
\* the unknown-scheme VendorError, before a staging directory is allocated
\* and before a handler is invoked.
C2_UnknownScheme ==
    (call.op = "fetch_vendor" /\ ~Registered(call.uri)) =>
        /\ outcome.exc = "VendorError"
        /\ outcome.msg = "unknown scheme"
        /\ Events("mkstemp") = {}
        /\ Events("handler") = {}

\* C3: a fetch whose handler leaves no subdirectory with a metadata file
\* fails with the invalid-vendor VendorError and leaves no staging directory.
C3_InvalidVendor ==
    (call.op = "fetch_vendor" /\ Registered(call.uri) /\ Produced = {}) =>
        /\ outcome.exc = "VendorError"
        /\ outcome.msg = "metadata not found"
        /\ Cardinality(Events("deltree_staging")) = Cardinality(Events("mkstemp"))

\* C4: after install of a bundle whose destination did not exist, the
\* destination holds a metadata.json whose fetch_uri is the uri passed.
C4_InstallFresh ==
    (call.op = "install" /\ Registered(call.uri)) =>
        \A n \in Placed :
            ~pre.installed[n].isdir =>
                /\ installed[n].isdir
                /\ installed[n].hasmeta
                /\ installed[n].meta.has_fetch_uri
                /\ installed[n].meta.fetch_uri = call.uri

\* C5: install without force of a bundle whose destination exists leaves the
\* destination as it was and emits exactly one "already installed" error for
\* that bundle.
C5_InstallConflict ==
    (call.op = "install" /\ Registered(call.uri) /\ ~call.force) =>
        \A n \in Placed :
            pre.installed[n].isdir =>
                /\ installed[n] = pre.installed[n]
                /\ Cardinality({i \in Events("already_installed") :
                                    log[i].name = n}) = 1

\* C6: install with force of a bundle whose destination exists replaces the
\* destination by the staged bundle with its new metadata, and still emits
\* the "already installed" error for that bundle.
C6_InstallForce ==
    (call.op = "install" /\ Registered(call.uri) /\ call.force) =>
        \A n \in Placed :
            pre.installed[n].isdir =>
                /\ installed[n].isdir
                /\ installed[n].hasmeta
                /\ installed[n].meta.has_fetch_uri
                /\ installed[n].meta.fetch_uri = call.uri
                /\ \E i \in Events("already_installed") : log[i].name = n

\* C7: update(appdir, name) of an installed vendor whose metadata has no
\* fetch_uri (absent or empty) fails with the fetch_uri-undefined
\* VendorError, fetches nothing and leaves the vendor directory as it was.
C7_MissingSource ==
    (call.op = "update" /\ call.name \in Names
        /\ WasInstalled(call.name) /\ NoRecordedUri(call.name)) =>
        /\ outcome.exc = "VendorError"
        /\ outcome.msg = "fetch_uri undefined"
        /\ Events("fetch_vendor") = {}
        /\ vendordir = pre.vendordir
        /\ installed = pre.installed

C7_Witness ==
    /\ call.op = "update"
    /\ call.name \in Names
    /\ WasInstalled(call.name)
    /\ pre.installed[call.name].meta.has_fetch_uri
    /\ pre.installed[call.name].meta.fetch_uri = <<>>
    /\ outcome.exc = "VendorError"
    /\ \E n \in Names \ {call.name} : WasInstalled(n)

\* C8: update(appdir, name) of a name without <vendordir>/<name>/metadata.json
\* fails with the doesn't-exist VendorError, fetches nothing and changes no
\* installed bundle.
C8_VendorNotFound ==
    (call.op = "update" /\ call.name \in Names /\ ~WasInstalled(call.name)) =>
        /\ outcome.exc = "VendorError"
        /\ outcome.msg = "doesn't exist"
        /\ Events("fetch_vendor") = {}
        /\ Events("handler") = {}
        /\ installed = pre.installed

C8_Witness ==
    /\ call.op = "update"
    /\ call.name \in Names
    /\ pre.installed[call.name].isdir
    /\ ~pre.installed[call.name].hasmeta
    /\ outcome.exc = "VendorError"
    /\ outcome.msg = "doesn't exist"
    /\ \E n \in Names : WasInstalled(n)

\* C9: a bulk update over N installed vendors that record pairwise distinct,
\* non-empty source URIs performs exactly N fetches, each followed by the
\* deletion of its staging directory.
C9_BulkCycles ==
    (/\ call.op = "update"
     /\ call.name = NoName
     /\ \A n \in Names : WasInstalled(n) => ~NoRecordedUri(n)
     /\ \A m, n \in Names :
            (WasInstalled(m) /\ WasInstalled(n) /\ m # n) =>
                pre.installed[m].meta.fetch_uri # pre.installed[n].meta.fetch_uri)
    =>
        /\ Cardinality(Events("fetch_vendor")) = Len(call.order)
        /\ Cardinality(Events("deltree_staging")) = Len(call.order)

\* C12: every Vendor works on its own handler table, the built-ins merged
\* with its own configuration: the built-in table stays as it was written
\* and holds no override given to an earlier Vendor.
C12_OwnHandlerTable ==
    /\ handlers = GLOBAL_VENDOR_HANDLERS
    /\ scheme = load_vendors(Merged(GLOBAL_VENDOR_HANDLERS, conf))

\* C11: install(uri) and then update(name) of a name the install placed,
\* the source unchanged: the update ends normally and the bundle is still
\* installed with the metadata the install wrote, fetch_uri included.
C11_RoundTrip ==
    [][(/\ call.op = "install"
        /\ Registered(call.uri)
        /\ call'.op = "update"
        /\ call'.name \in Placed)
       =>
       (/\ outcome'.exc = "None"
        /\ installed'[call'.name].hasmeta
        /\ installed'[call'.name].meta = installed[call'.name].meta
        /\ installed'[call'.name].meta.fetch_uri = call.uri)]_vars

\* C14: in a bulk update, an installed vendor without fetch_uri is logged as
\* an error and skipped: the run ends normally, that vendor stays as it was
\* and every vendor that records a uri is still fetched, whatever the
\* verbosity.
C14_BulkSkip ==
    (BulkUpdate /\ \E n \in Names : WasInstalled(n) /\ NoRecordedUri(n)) =>
        /\ outcome.exc = "None"
        /\ \A n \in Names :
            (WasInstalled(n) /\ NoRecordedUri(n)) =>
                /\ \E i \in Events("error") : log[i].name = n
                /\ installed[n] = pre.installed[n]
        /\ \A n \in WithUri :
            \E i \in Events("fetch_vendor") :
                log[i].uri = pre.installed[n].meta.fetch_uri

\* C15: in a bulk update that fetches, a produced bundle whose name is
\* installed is replaced whatever force is, and one whose name is not
\* installed is installed exactly when force is set.
C15_BulkForce ==
    (BulkUpdate /\ WithUri # {}) =>
        \A d \in Produced :
            /\ pre.installed[d].isdir =>
                \E i \in Events("updated") : log[i].name = d
            /\ ~pre.installed[d].isdir => (installed[d].isdir <=> call.force)

\* C16: a bulk update over k installed vendors that all record the same
\* source uri fetches that uri k times.
C16_SharedSource ==
    (/\ BulkUpdate
     /\ WithUri # {}
     /\ \A n \in Names : WasInstalled(n) => n \in WithUri
     /\ \A m, n \in WithUri :
            pre.installed[m].meta.fetch_uri = pre.installed[n].meta.fetch_uri)
    =>
        Cardinality(Events("fetch_vendor")) = Cardinality(WithUri)

\* C17: update(appdir, name) whose fetch yields bundles, none of them named
\* name, updates nothing, leaves no staging directory and returns 0.
C17_NoMatch ==
    (/\ call.op = "update"
     /\ call.name \in WithUri
     /\ Registered(pre.installed[call.name].meta.fetch_uri)
     /\ Produced # {}
     /\ call.name \notin Produced)
    =>
        /\ outcome.exc = "None"
        /\ outcome.ret = "0"
        /\ installed = pre.installed
        /\ Cardinality(Events("deltree_staging")) = Cardinality(Events("mkstemp"))

\* C18: an install without force whose fetch yields several bundles, one of
\* them with an existing destination, still installs every bundle whose
\* destination did not exist and returns 0.
C18_ConflictContinues ==
    (/\ call.op = "install"
     /\ ~call.force
     /\ Registered(call.uri)
     /\ \E n \in Placed : pre.installed[n].isdir
     /\ \E n \in Placed : ~pre.installed[n].isdir)
    =>
        /\ outcome.ret = "0"
        /\ \A n \in Placed :
            ~pre.installed[n].isdir => installed[n].isdir /\ installed[n].hasmeta

\* C19: a bundle that install placed under a name is the one that update
\* of that name, and the bulk update, select and replace when the unchanged
\* source is fetched again, also when its metadata `name` differs from its
\* staged directory.
C19_SameName ==
    [][(/\ call.op = "install"
        /\ Registered(call.uri)
        /\ Placed # {}
        /\ call'.op = "update"
        /\ call'.name \in Placed \cup {NoName})
       =>
       \A n \in Placed :
           (call'.name \in {n, NoName}) =>
               \E i \in DOMAIN log' : log'[i].ev = "updated" /\ log'[i].name = n]_vars

\* C20: generate with a kind outside the eight it knows, or with a known
\* kind and no name, raises AppError before generate_function is entered,
\* a directory made or a file copied; generate_function is entered only for
\* a known kind with a name.
C20_GenerateRejects ==
    call.op = "generate" =>
        LET known == gen.kind \in {"view", "list", "show", "filter", "function",
                                   "vendor", "update", "spatial"}
        IN  /\ ~known =>
                /\ outcome.exc = "AppError"
                /\ outcome.msg = "generator is unknown"
                /\ log = <<>>
            /\ (known /\ call.name = NoName) =>
                /\ outcome.exc = "AppError"
                /\ outcome.msg = "name is missing"
                /\ log = <<>>
            /\ (known /\ call.name # NoName) =>
                /\ log # <<>>
                /\ log[1].ev = "generate_function"

C20_Witness ==
    /\ call.op = "generate"
    /\ gen.kind = "vendor"
    /\ gen.found
    /\ call.name = NoName
    /\ outcome.exc = "AppError"
    /\ log = <<>>

====
